---- MODULE Spec2Model ----
(***************************************************************************)
(* Model of src/player.py (MediaPlayer): the event-list loader, the        *)
(* actuation dispatcher and the play() session with its tick loop.         *)
(*                                                                         *)
(* Text is a sequence of one-character strings.  Python's None is the      *)
(* empty tuple <<>> and a present value v is <<v>>.  Wall-clock time and   *)
(* trigger offsets are integers in seconds.                                *)
(***************************************************************************)
EXTENDS Integers, Sequences, FiniteSets, TLC

\* ------------------------------------------------------------------ bounds
\* Largest number of lines in the event-list file.
MaxLines == 2
\* Last wall-clock instant the model lets the clock reach.
MaxTime == 4
\* Largest advance of the wall clock between two readings of time.time().
MaxStep == 2
\* The wall clock when main calls play.
FirstInstant == 1

\* ------------------------------------------------------------ Python values
None == <<>>

Some(v) == <<v>>

\* bool(x) of an int or None: None and 0 are false.
TruthyInt(x) == x # None /\ x[1] # 0

\* bool(x) of a str or None: None and "" are false.
TruthyStr(x) == x # None /\ x[1] # ""

\* bool(x) of a value that is None or a non-empty list (termios attributes).
TruthyList(x) == x # None

\* ------------------------------------------------------------------- text
Digits == {"0", "1", "2", "3", "4", "5", "6", "7", "8", "9"}

Whitespace == {" ", "\n"}

DigitValue(c) ==
    CASE c = "0" -> 0 [] c = "1" -> 1 [] c = "2" -> 2 [] c = "3" -> 3
      [] c = "4" -> 4 [] c = "5" -> 5 [] c = "6" -> 6 [] c = "7" -> 7
      [] c = "8" -> 8 [] c = "9" -> 9

\* str.strip(): leading and trailing whitespace removed.
RECURSIVE LStrip(_)
LStrip(s) ==
    IF s # <<>> /\ Head(s) \in Whitespace THEN LStrip(Tail(s)) ELSE s

RECURSIVE RStrip(_)
RStrip(s) ==
    IF s # <<>> /\ s[Len(s)] \in Whitespace
    THEN RStrip(SubSeq(s, 1, Len(s) - 1))
    ELSE s

Strip(s) == RStrip(LStrip(s))

\* str.split(sep): the fields between the separators; "" gives [""].
RECURSIVE SplitFrom(_, _, _, _)
SplitFrom(s, sep, cur, acc) ==
    IF s = <<>> THEN Append(acc, cur)
    ELSE IF Head(s) = sep THEN SplitFrom(Tail(s), sep, <<>>, Append(acc, cur))
    ELSE SplitFrom(Tail(s), sep, Append(cur, Head(s)), acc)

Split(s, sep) == SplitFrom(s, sep, <<>>, <<>>)

\* int(text) succeeds on a non-empty run of decimal digits (the texts of the
\* model carry no sign, blank or underscore); anything else is ValueError.
IsIntText(s) == s # <<>> /\ \A i \in 1..Len(s) : s[i] \in Digits

RECURSIVE IntValueFrom(_, _)
IntValueFrom(s, acc) ==
    IF s = <<>> THEN acc ELSE IntValueFrom(Tail(s), 10 * acc + DigitValue(Head(s)))

IntValue(s) == IntValueFrom(s, 0)

\* str.lower() of one character read from stdin.
Lower(c) ==
    CASE c = "P" -> "p" [] c = "S" -> "s" [] c = "X" -> "x" [] OTHER -> c

\* Variant: the timestamp is read as the decimal number MMSS.
SecondsOfDecimal(minutes, seconds) == minutes * 100 + seconds

\* ------------------------------------------------------- parse_timestamp
\* minutes, seconds = map(int, time_str.split(':')): ValueError when the
\* part count is not two or a part is no integer; the handler returns 0.
SecondsOf(minutes, seconds) == minutes * 60 + seconds

parse_timestamp(time_str) ==
    LET parts == Split(time_str, ":")
    IN  IF Len(parts) = 2 /\ IsIntText(parts[1]) /\ IsIntText(parts[2])
        THEN SecondsOf(IntValue(parts[1]), IntValue(parts[2]))
        ELSE 0

\* Variant: the fields are unpacked without the length test, so a line of
\* another field count raises ValueError.
LineResultUnpacked(line) ==
    LET parts == Split(Strip(line), ",")
    IN  IF Len(parts) # 4 THEN [tag |-> "raise"]
        ELSE IF ~IsIntText(parts[3]) \/ ~IsIntText(parts[4]) THEN [tag |-> "raise"]
        ELSE [tag |-> "entry",
              entry |-> [time |-> parse_timestamp(parts[1]),
                         type |-> parts[2],
                         intensity |-> IntValue(parts[3]),
                         duration |-> IntValue(parts[4])]]

\* ------------------------------------------------------- load_timestamps
\* One line of the loop body: "skip" (field count is not four), "raise"
\* (int() of intensity or duration raises ValueError, which nothing in
\* load_timestamps or play catches) or "entry" with the appended dict.
LineResult(line) ==
    LET parts == Split(Strip(line), ",")
    IN  IF Len(parts) # 4 THEN [tag |-> "skip"]
        ELSE IF ~IsIntText(parts[3]) \/ ~IsIntText(parts[4]) THEN [tag |-> "raise"]
        ELSE [tag |-> "entry",
              entry |-> [time |-> parse_timestamp(parts[1]),
                         type |-> parts[2],
                         intensity |-> IntValue(parts[3]),
                         duration |-> IntValue(parts[4])]]

\* The for loop over the file's lines: the entries appended so far, and
\* whether a line raised (the loop stops there).
RECURSIVE ReadLines(_, _)
ReadLines(lines, acc) ==
    IF lines = <<>> THEN [raised |-> FALSE, entries |-> acc]
    ELSE LET r == LineResult(Head(lines))
         IN  CASE r.tag = "skip" -> ReadLines(Tail(lines), acc)
               [] r.tag = "raise" -> [raised |-> TRUE, entries |-> acc]
               [] r.tag = "entry" -> ReadLines(Tail(lines), Append(acc, r.entry))

\* Variant: the entries are returned in file order.
SortedAsRead(entries) == entries

\* sorted(timestamps, key=lambda x: x['time']): for lists this short Timsort
\* is a binary insertion sort, each element placed after the elements whose
\* key is less than or equal to its own.
\* Variant: an element is placed before the elements of equal key.
GoesAfterStrict(placed, e) == placed.time < e.time

GoesAfter(placed, e) == placed.time <= e.time

RECURSIVE InsertByTime(_, _)
InsertByTime(sortedSeq, e) ==
    IF sortedSeq = <<>> THEN <<e>>
    ELSE IF GoesAfter(sortedSeq[Len(sortedSeq)], e) THEN Append(sortedSeq, e)
    ELSE Append(InsertByTime(SubSeq(sortedSeq, 1, Len(sortedSeq) - 1), e),
                sortedSeq[Len(sortedSeq)])

RECURSIVE SortedFrom(_, _)
SortedFrom(todo, done) ==
    IF todo = <<>> THEN done
    ELSE SortedFrom(Tail(todo), InsertByTime(done, Head(todo)))

Sorted(entries) == SortedFrom(entries, <<>>)

\* Variant: the file is opened without the os.path.exists test, so a
\* missing file raises.
load_timestamps_unguarded(file) ==
    IF file = None THEN [raised |-> TRUE, value |-> <<>>]
    ELSE LET r == ReadLines(file[1], <<>>)
         IN  IF r.raised THEN [raised |-> TRUE, value |-> <<>>]
             ELSE [raised |-> FALSE, value |-> Sorted(r.entries)]

\* load_timestamps(timestamp_file): file is None when the path does not
\* exist, else the sequence of its lines.
load_timestamps(file) ==
    IF file = None THEN [raised |-> FALSE, value |-> <<>>]
    ELSE LET r == ReadLines(file[1], <<>>)
         IN  IF r.raised THEN [raised |-> TRUE, value |-> <<>>]
             ELSE [raised |-> FALSE, value |-> Sorted(r.entries)]

\* What load_timestamps logs at level ERROR or WARNING, in order.
\* Line 74: parse_timestamp logs an error when it falls back to 0.
parse_timestamp_log(time_str) ==
    LET parts == Split(time_str, ":")
    IN  IF Len(parts) = 2 /\ IsIntText(parts[1]) /\ IsIntText(parts[2])
        THEN <<>>
        ELSE << [level |-> "error", msg |-> "Invalid timestamp format"] >>

\* Lines 84-93: a line of four fields logs what parse_timestamp logs (the
\* 'time' item is evaluated before int(intensity)); any other line logs a
\* warning.
LineLog(line) ==
    LET parts == Split(Strip(line), ",")
    IN  IF Len(parts) # 4
        THEN << [level |-> "warning", msg |-> "Invalid timestamp entry"] >>
        ELSE parse_timestamp_log(parts[1])

RECURSIVE ReadLog(_, _)
ReadLog(lines, acc) ==
    IF lines = <<>> THEN acc
    ELSE IF LineResult(Head(lines)).tag = "raise"
         THEN acc \o LineLog(Head(lines))
         ELSE ReadLog(Tail(lines), acc \o LineLog(Head(lines)))

\* Lines 79-95.
load_timestamps_log(file) ==
    IF file = None
    THEN << [level |-> "warning", msg |-> "Timestamp file not found"] >>
    ELSE ReadLog(file[1], <<>>)

\* --------------------------------------------------------------- load_env
\* The .env file may be missing; os.getenv gives None, "" or a text.
load_env(env_file_exists, key_var, id_var) ==
    IF env_file_exists
    THEN [api_key |-> key_var, shock_id |-> id_var]
    ELSE [api_key |-> None, shock_id |-> None]

EnvCases ==
    { [exists |-> FALSE, key |-> Some("tok"), id |-> Some("dev")],
      [exists |-> TRUE,  key |-> Some("tok"), id |-> Some("dev")],
      [exists |-> TRUE,  key |-> None,        id |-> Some("dev")],
      [exists |-> TRUE,  key |-> Some("tok"), id |-> Some("")] }

\* ---------------------------------------------------------- trigger_shock
\* What requests.post does: raises a RequestException, or answers a status.
Responses ==
    { [raises |-> FALSE, status_code |-> 200],
      [raises |-> FALSE, status_code |-> 500],
      [raises |-> TRUE,  status_code |-> 0] }

\* Variant: the call is skipped only when both credentials are missing.
BothCredentialsMissing(key, id) == ~TruthyStr(key) /\ ~TruthyStr(id)

\* The guard of line 35: either credential missing or empty skips the call.
CredentialsMissing(key, id) == ~TruthyStr(key) \/ ~TruthyStr(id)

\* Variant: a RequestException is not caught in trigger_shock.
TransportErrorPropagates(resp) == resp.raises

\* Whether a failed request leaves trigger_shock by an exception: the
\* RequestException is caught and a non-200 status is only logged.
FailurePropagates(resp) == FALSE

\* trigger_shock(intensity, duration, shock_type) with the answer resp of the
\* remote service: whether a request was posted, what was logged, and
\* whether the call raised.
trigger_shock(key, id, resp) ==
    IF CredentialsMissing(key, id)
    THEN [posted |-> FALSE, outcome |-> "skipped", raised |-> FALSE]
    ELSE [posted |-> TRUE,
          outcome |-> IF resp.raises THEN "transport_error"
                      ELSE IF resp.status_code = 200 THEN "sent"
                      ELSE "bad_status",
          raised |-> (resp.raises \/ resp.status_code # 200)
                     /\ FailurePropagates(resp)]

\* ------------------------------------------------------------ audio engine
\* pygame.mixer.music: "idle", "playing", "paused", "ended" (ran to the end
\* of the track) or "stopped".
get_busy(m) == m = "playing"

\* Variant: the engine is not paused.
music_pause_skipped(m) == m

music_pause(m) == IF m = "playing" THEN "paused" ELSE m

music_unpause(m) == IF m = "paused" THEN "playing" ELSE m

music_stop(m) == "stopped"

\* ------------------------------------------------------------------ inputs
\* The lines an event-list file is made of.
FileLines ==
    { <<"0", ":", "1", ",", "S", ",", "1", ",", "2", "\n">>,
      <<"0", ":", "1", ",", "V", ",", "3", ",", "4">>,
      <<"0", ":", "2", ",", "S", ",", "1", ",", "2">>,
      <<"x", ":", "1", ",", "S", ",", "1", ",", "2">>,
      <<"0", "1", ":", "0", "5", ",", "S", ",", "1", ",", "2">>,
      <<"0", ":", "2", ",", "S", ",", "1">>,
      <<"0", ":", "2", ",", "S", ",", "x", ",", "2">>,
      <<"\n">> }

RECURSIVE SeqsUpTo(_, _)
SeqsUpTo(S, n) ==
    IF n = 0 THEN { <<>> }
    ELSE LET shorter == SeqsUpTo(S, n - 1)
         IN  shorter \cup { Append(s, x) : s \in shorter, x \in S }

\* The event-list file: absent, or up to MaxLines lines.
EventFiles == { None } \cup { Some(ls) : ls \in SeqsUpTo(FileLines, MaxLines) }

\* The descriptor sys.stdin.fileno() returns.
StdinFds == { 0, 3 }

\* One character from sys.stdin.read(1); "" at end of input.
KeyChars == { "p", "P", "s", "S", "x", "" }

\* The terminal input mode before the session.
PreSessionMode == "cooked"

\* ------------------------------------------------------------------- state
VARIABLES
    pc,                       \* position in main/play
    api_key, shock_id,        \* self.api_key, self.shock_id
    timestamp_file,           \* content of the event-list file read by play
    timestamps,               \* the loaded schedule
    load_log,                 \* errors and warnings load_timestamps logged
    music,                    \* state of pygame.mixer.music
    now,                      \* the wall clock, as time.time() reads it
    start_time, pause_start, paused, current_timestamp_index,
    elapsed_time,             \* locals of play
    fd, old_settings,         \* locals of play
    term_mode,                \* the terminal's input mode
    calls,                    \* the trigger_shock calls made, in order
    exit_reason,              \* how play ended
    start0,                   \* the instant the session started
    pausedWall,               \* wall-clock time that passed while paused
    pauseElapsed,             \* elapsed time at the moment the last pause began
    reached,                  \* events whose offset some tick's elapsed time reached
    duePlaying,               \* ... in a tick executed while not paused
    served                    \* ... and that tick completed its dispatch step

vars == << pc, api_key, shock_id, timestamp_file, timestamps, load_log,
           music, now,
           start_time, pause_start, paused, current_timestamp_index,
           elapsed_time, fd, old_settings, term_mode, calls, exit_reason,
           start0, pausedWall, pauseElapsed, reached, duePlaying, served >>

ghosts == << start0, pausedWall, pauseElapsed, reached, duePlaying, served >>

session == << start_time, pause_start, paused, current_timestamp_index,
              elapsed_time >>

LoopPcs == { "loop", "dispatch", "input" }

\* State after MediaPlayer() was constructed and main is about to call play.
Init ==
    /\ pc = "play"
    /\ \E e \in EnvCases :
          LET env == load_env(e.exists, e.key, e.id)
          IN  api_key = env.api_key /\ shock_id = env.shock_id
    /\ timestamp_file = None
    /\ timestamps = <<>>
    /\ load_log = <<>>
    /\ music = "idle"
    /\ now = FirstInstant
    /\ start_time = 0 /\ pause_start = 0 /\ paused = FALSE
    /\ current_timestamp_index = 0
    /\ elapsed_time = 0
    /\ fd = None /\ old_settings = None
    /\ term_mode = PreSessionMode
    /\ calls = <<>>
    /\ exit_reason = "none"
    /\ start0 = 0 /\ pausedWall = 0 /\ pauseElapsed = 0
    /\ reached = {} /\ duePlaying = {} /\ served = {}

\* ------------------------------------------------------------------- play
\* The finally clause: the mode the terminal is left in.
RestoreGuard(fdv, olds) == TruthyInt(fdv) /\ TruthyList(olds)

FinallyMode(fdv, olds, mode) ==
    IF RestoreGuard(fdv, olds) THEN olds[1] ELSE mode

\* Variant: no except clause, an error leaves play after the finally clause.
LeavePlayUncaught(reason, fdv, olds) ==
    /\ pc' = IF reason = "error" THEN "crashed" ELSE "returned"
    /\ exit_reason' = reason
    /\ term_mode' = FinallyMode(fdv, olds, term_mode)

\* Leaving play through the except and finally clauses.
LeavePlay(reason, fdv, olds) ==
    /\ pc' = "returned"
    /\ exit_reason' = reason
    /\ term_mode' = FinallyMode(fdv, olds, term_mode)

\* Lines 100-102: the audio file does not exist.
PlayFileNotFound ==
    /\ pc = "play"
    /\ pc' = "returned"
    /\ exit_reason' = "nofile"
    /\ UNCHANGED << api_key, shock_id, timestamp_file, timestamps, load_log,
                    music, now,
                    session, fd, old_settings, term_mode, calls, ghosts >>

\* Lines 104-105: the schedule is loaded, outside the try block; a
\* ValueError raised by load_timestamps leaves play and main.
LoadTimestamps ==
    /\ pc = "play"
    /\ \E file \in EventFiles :
          LET r == load_timestamps(file)
          IN  /\ timestamp_file' = file
              /\ load_log' = load_timestamps_log(file)
              /\ IF r.raised
                 THEN pc' = "crashed" /\ exit_reason' = "uncaught"
                      /\ UNCHANGED timestamps
                 ELSE pc' = "try" /\ timestamps' = r.value
                      /\ UNCHANGED exit_reason
    /\ UNCHANGED << api_key, shock_id, music, now, session, fd, old_settings,
                    term_mode, calls, ghosts >>

\* Line 111 raises pygame.error: caught at 171, finally with fd = None.
AudioLoadFails ==
    /\ pc = "try"
    /\ LeavePlay("error", fd, old_settings)
    /\ UNCHANGED << api_key, shock_id, timestamp_file, timestamps, load_log,
                    music, now,
                    session, fd, old_settings, calls, ghosts >>

\* A reading of time.time(): the clock has advanced by d since the last one.
ClockReads(d) == d \in 0..MaxStep /\ now + d <= MaxTime /\ now' = now + d

\* Lines 111-127: the track starts, the session's locals are set, the
\* terminal attributes are saved and the terminal is put in cbreak mode.
\* tcgetattr raises termios.error when stdin is no terminal.
StartPlayback ==
    /\ pc = "try"
    /\ \E f \in StdinFds, is_tty \in BOOLEAN :
          /\ ClockReads(0)
          /\ music' = "playing"
          /\ start_time' = now'
          /\ current_timestamp_index' = 0
          /\ paused' = FALSE
          /\ pause_start' = 0
          /\ fd' = Some(f)
          /\ start0' = now'
          /\ IF is_tty
             THEN /\ old_settings' = Some(term_mode)
                  /\ term_mode' = "cbreak"
                  /\ pc' = "loop"
                  /\ UNCHANGED exit_reason
             ELSE /\ old_settings' = old_settings
                  /\ LeavePlay("error", fd', old_settings')
    /\ UNCHANGED << api_key, shock_id, timestamp_file, timestamps, load_log,
                    elapsed_time, calls, pausedWall, pauseElapsed, reached,
                    duePlaying, served >>

\* Variant: elapsed time is taken from the wall clock even while paused.
ElapsedIgnoringPause(t, st, p, ps) == t - st

\* Line 134.
ElapsedAt(t, st, p, ps) == IF ~p THEN t - st ELSE ps - st

\* The events whose trigger offset is at or before e.
DueAt(e) == { i \in 1..Len(timestamps) : timestamps[i].time <= e }

\* Variant: the engine's answer ends the session whether paused or not.
PlaybackOverIgnoringPause(p, m) == ~get_busy(m)

\* Line 130: not paused and the engine is no longer busy.
PlaybackOver(p, m) == ~p /\ ~get_busy(m)

\* Variant: the dispatch loop runs in every tick.
DispatchStepAlways(p) == TRUE

\* Line 143: the dispatch loop runs only while not paused.
DispatchStepRuns(p) == ~p

\* Lines 130-132: not paused and the engine is no longer busy.
TickFinished ==
    /\ pc = "loop"
    /\ PlaybackOver(paused, music)
    /\ LeavePlay("finished", fd, old_settings)
    /\ UNCHANGED << api_key, shock_id, timestamp_file, timestamps, load_log,
                    music, now,
                    session, fd, old_settings, calls, ghosts >>

\* Lines 130-141: the tick goes on, elapsed time is computed and shown.
TickElapsed ==
    /\ pc = "loop"
    /\ ~PlaybackOver(paused, music)
    /\ \E d \in 0..MaxStep :
          /\ ClockReads(d)
          /\ elapsed_time' = ElapsedAt(now', start_time, paused, pause_start)
          /\ pausedWall' = IF paused THEN pausedWall + d ELSE pausedWall
    /\ reached' = reached \cup DueAt(elapsed_time')
    /\ duePlaying' = IF paused THEN duePlaying
                     ELSE duePlaying \cup DueAt(elapsed_time')
    /\ pc' = IF DispatchStepRuns(paused) THEN "dispatch" ELSE "input"
    /\ UNCHANGED << api_key, shock_id, timestamp_file, timestamps, load_log,
                    music,
                    start_time, pause_start, paused, current_timestamp_index,
                    fd, old_settings, term_mode, calls, exit_reason, start0,
                    pauseElapsed, served >>

\* Variant: an event is due only once elapsed time is past its offset.
EventDueStrictlyPast ==
    /\ current_timestamp_index < Len(timestamps)
    /\ timestamps[current_timestamp_index + 1].time < elapsed_time

\* Lines 144-145: the condition of the inner while loop.
EventDue ==
    /\ current_timestamp_index < Len(timestamps)
    /\ timestamps[current_timestamp_index + 1].time <= elapsed_time

\* Variant: the cursor is left where it was after a dispatch.
NextIndexStuck(i) == i

\* Line 149.
NextIndex(i) == i + 1

\* Lines 146-148: the arguments trigger_shock is called with.
ShockArgs(shock) == << shock.intensity, shock.duration, shock.type >>

\* Lines 144-149: one iteration of the inner loop.
DispatchEvent ==
    /\ pc = "dispatch"
    /\ EventDue
    /\ \E resp \in Responses :
          LET shock == timestamps[current_timestamp_index + 1]
              r == trigger_shock(api_key, shock_id, resp)
          IN  /\ calls' = Append(calls, [index |-> current_timestamp_index,
                                          args |-> ShockArgs(shock),
                                          posted |-> r.posted,
                                          outcome |-> r.outcome])
              /\ IF r.raised
                 THEN /\ LeavePlay("error", fd, old_settings)
                      /\ UNCHANGED current_timestamp_index
                 ELSE /\ current_timestamp_index' =
                            NextIndex(current_timestamp_index)
                      /\ UNCHANGED << pc, exit_reason, term_mode >>
    /\ UNCHANGED << api_key, shock_id, timestamp_file, timestamps, load_log,
                    music, now,
                    start_time, pause_start, paused, elapsed_time, fd,
                    old_settings, ghosts >>

\* Lines 144-145 false: the inner loop ends, on to the input poll.
DispatchDone ==
    /\ pc = "dispatch"
    /\ ~EventDue
    /\ pc' = "input"
    /\ served' = served \cup DueAt(elapsed_time)
    /\ UNCHANGED << api_key, shock_id, timestamp_file, timestamps, load_log,
                    music, now,
                    session, fd, old_settings, term_mode, calls, exit_reason,
                    start0, pausedWall, pauseElapsed, reached, duePlaying >>

\* Line 151 false: no key within the timeout; line 169.
PollNoInput ==
    /\ pc = "input"
    /\ pc' = "loop"
    /\ UNCHANGED << api_key, shock_id, timestamp_file, timestamps, load_log,
                    music, now,
                    session, fd, old_settings, term_mode, calls, exit_reason,
                    ghosts >>

\* Variant: the instant of the pause is not recorded.
PauseStartUnset(t) == 0

\* Line 156.
PauseStart(t) == t

\* Lines 153-158: 'p' while playing.
KeyPause ==
    /\ pc = "input"
    /\ ~paused
    /\ \E c \in KeyChars, d \in 0..MaxStep :
          /\ Lower(c) = "p"
          /\ ClockReads(d)
          /\ music' = music_pause(music)
          /\ pause_start' = PauseStart(now')
          /\ paused' = TRUE
          /\ pauseElapsed' = now' - start_time
    /\ pc' = "loop"
    /\ UNCHANGED << api_key, shock_id, timestamp_file, timestamps, load_log,
                    start_time,
                    current_timestamp_index, elapsed_time, fd, old_settings,
                    term_mode, calls, exit_reason, start0, pausedWall,
                    reached, duePlaying, served >>

\* Variant: resume restarts the clock.
ResumedStartReset(st, t, ps) == t

\* Variant: resume leaves start_time where it was.
ResumedStartUnshifted(st, t, ps) == st

\* Line 161.
ResumedStart(st, t, ps) == st + (t - ps)

\* Lines 159-163: 'p' while paused.
KeyResume ==
    /\ pc = "input"
    /\ paused
    /\ \E c \in KeyChars, d \in 0..MaxStep :
          /\ Lower(c) = "p"
          /\ ClockReads(d)
          /\ music' = music_unpause(music)
          /\ start_time' = ResumedStart(start_time, now', pause_start)
          /\ paused' = FALSE
          /\ pausedWall' = pausedWall + d
    /\ pc' = "loop"
    /\ UNCHANGED << api_key, shock_id, timestamp_file, timestamps, load_log,
                    pause_start,
                    current_timestamp_index, elapsed_time, fd, old_settings,
                    term_mode, calls, exit_reason, start0, pauseElapsed,
                    reached, duePlaying, served >>

\* Line 164: which input stops the session.
IsStopKey(user_input) == user_input = "s"

\* Lines 164-167 and 173-175: 's' stops the engine and leaves the loop.
KeyStop ==
    /\ pc = "input"
    /\ \E c \in KeyChars : IsStopKey(Lower(c))
    /\ music' = music_stop(music)
    /\ LeavePlay("stopped", fd, old_settings)
    /\ UNCHANGED << api_key, shock_id, timestamp_file, timestamps, load_log,
                    now,
                    session, fd, old_settings, calls, ghosts >>

\* Lines 152-164: any other character, or "" at end of input; line 169.
KeyOther ==
    /\ pc = "input"
    /\ \E c \in KeyChars : Lower(c) # "p" /\ ~IsStopKey(Lower(c))
    /\ pc' = "loop"
    /\ UNCHANGED << api_key, shock_id, timestamp_file, timestamps, load_log,
                    music, now,
                    session, fd, old_settings, term_mode, calls, exit_reason,
                    ghosts >>

\* The track runs to its end while the engine plays it.
AudioEnds ==
    /\ pc \in LoopPcs
    /\ music = "playing"
    /\ music' = "ended"
    /\ UNCHANGED << pc, api_key, shock_id, timestamp_file, timestamps, load_log,
                    now,
                    session, fd, old_settings, term_mode, calls, exit_reason,
                    ghosts >>

\* Lines 171-175: a call inside the loop raises (print, select, read):
\* the handler logs it and the finally clause runs.
LoopFault ==
    /\ pc \in LoopPcs
    /\ LeavePlay("error", fd, old_settings)
    /\ UNCHANGED << api_key, shock_id, timestamp_file, timestamps, load_log,
                    music, now,
                    session, fd, old_settings, calls, ghosts >>

Next ==
    \/ PlayFileNotFound
    \/ LoadTimestamps
    \/ AudioLoadFails
    \/ StartPlayback
    \/ TickFinished
    \/ TickElapsed
    \/ DispatchEvent
    \/ DispatchDone
    \/ PollNoInput
    \/ KeyPause
    \/ KeyResume
    \/ KeyStop
    \/ KeyOther
    \/ AudioEnds
    \/ LoopFault

Spec == Init /\ [][Next]_vars

\* ================================================================== claims
\* The number of trigger_shock calls made for the event at schedule
\* position i (1-based), and whether each carried that event's arguments.
CallsFor(i) == Cardinality({ k \in 1..Len(calls) : calls[k].index = i - 1 })

CalledOnceWithOwnArgs(i) ==
    /\ CallsFor(i) = 1
    /\ \A k \in 1..Len(calls) :
          calls[k].index = i - 1 =>
             calls[k].args = << timestamps[i].intensity,
                                timestamps[i].duration,
                                timestamps[i].type >>

FailedOutcomes == { "transport_error", "bad_status" }

\* C1 (as claimed): once play has put the terminal in cbreak mode, every
\* exit from the tick loop leaves the terminal in the mode saved before the
\* session, whatever descriptor stdin has (0 included).
C1_TerminalRestoredOnEveryExit ==
    (pc = "returned" /\ old_settings # None) => term_mode = old_settings[1]

\* C2: the cursor starts at 0, grows by one per dispatch and stays within
\* 0..len(timestamps); the k-th call ever made is for schedule position
\* k-1, so each event is dispatched at most once and in schedule order.
C2_CursorDispatchesInOrder ==
    /\ current_timestamp_index \in 0..Len(timestamps)
    /\ Len(calls) = current_timestamp_index
    /\ \A k \in 1..Len(calls) : calls[k].index = k - 1

C2_Witness ==
    /\ current_timestamp_index = 2
    /\ pausedWall > 0
    /\ ~paused
    /\ pc = "returned"

\* C3 (as claimed), for sessions that end by the track finishing or by the
\* user's stop: an event whose offset some tick's elapsed time reached was
\* dispatched exactly once with its arguments, any other event never.
C3_DispatchedIffElapsedReached ==
    exit_reason \in { "finished", "stopped" } =>
       \A i \in 1..Len(timestamps) :
          IF i \in reached THEN CalledOnceWithOwnArgs(i) ELSE CallsFor(i) = 0

\* C3 (amended): an event whose offset was reached by the elapsed time of a
\* tick that ran while not paused and completed its dispatch step has been
\* dispatched exactly once with its (intensity, duration, kind); an event
\* whose offset no tick run while not paused has reached was never
\* dispatched.
C3_DispatchedOnceWhenServed ==
    \A i \in 1..Len(timestamps) :
       /\ i \in served => CalledOnceWithOwnArgs(i)
       /\ i \notin duePlaying => CallsFor(i) = 0

C3_Witness ==
    /\ pc = "returned"
    /\ Len(timestamps) = 2
    /\ 1 \in served
    /\ timestamps[1].time = elapsed_time
    /\ 2 \notin duePlaying
    /\ CallsFor(1) = 1

\* C4: at every point of the tick loop the elapsed time the code computes
\* equals the wall-clock time since the session started minus the
\* wall-clock time that passed while paused, so after a pause at T and a
\* resume D later it goes on from T.
C4_ElapsedExcludesPausedTime ==
    /\ pc \in LoopPcs =>
          ElapsedAt(now, start_time, paused, pause_start)
             = (now - start0) - pausedWall
    /\ pc \in { "dispatch", "input" } =>
          elapsed_time = (now - start0) - pausedWall

C4_Witness ==
    /\ pc = "dispatch"
    /\ ~paused
    /\ pausedWall >= 2
    /\ elapsed_time >= 1
    /\ pauseElapsed >= 1

\* C5: in every tick run while paused the computed elapsed time is the
\* elapsed time at the moment the pause began, pause_start - start_time.
C5_ElapsedFrozenWhilePaused ==
    (paused /\ pc = "input") =>
       /\ elapsed_time = pauseElapsed
       /\ pauseElapsed = pause_start - start_time

C5_Witness ==
    /\ paused
    /\ pc = "input"
    /\ now >= pause_start + 2
    /\ pauseElapsed >= 1

\* C6 (as claimed): after 's' or 'S' the engine is stopped, the loop has
\* been left and the terminal is back in its pre-session mode.
C6_StopEndsSessionAndRestores ==
    exit_reason = "stopped" =>
       /\ pc = "returned"
       /\ music = "stopped"
       /\ term_mode = PreSessionMode

\* A step in which trigger_shock was called and the request failed.
FailedDispatchStep ==
    /\ Len(calls') = Len(calls) + 1
    /\ calls'[Len(calls')].outcome \in FailedOutcomes

\* C7: a dispatch that fails (transport failure or non-success status)
\* returns to the inner loop with the cursor advanced by one and the
\* session otherwise as it was; no event is attempted twice; and every
\* event a completed dispatch step has reached was dispatched, failed
\* calls before it or not.
C7_FailedDispatchContinues ==
    /\ [](\A k \in 1..Len(calls) : calls[k].index = k - 1)
    /\ [](\A i \in served : CallsFor(i) = 1)
    /\ [][FailedDispatchStep =>
             /\ pc' = "dispatch"
             /\ current_timestamp_index' = current_timestamp_index + 1
             /\ UNCHANGED << paused, music, exit_reason, term_mode,
                             start_time, pause_start >>]_vars

C7_Witness ==
    /\ Len(calls) = 2
    /\ calls[1].outcome = "transport_error"
    /\ calls[2].outcome = "sent"
    /\ timestamps[1].time < timestamps[2].time
    /\ exit_reason = "finished"

\* A credential that is unset or empty.
Absent(x) == x = None \/ x = Some("")

\* C8: with the API token or the device id unset or empty, no call posts a
\* request, every call returns as skipped, and the cursor still advances
\* past every due event.
C8_NoRequestWithoutCredentials ==
    (Absent(api_key) \/ Absent(shock_id)) =>
       /\ \A k \in 1..Len(calls) :
             ~calls[k].posted /\ calls[k].outcome = "skipped"
       /\ current_timestamp_index = Len(calls)
       /\ \A i \in served : i <= current_timestamp_index

C8_Witness ==
    /\ api_key # None
    /\ Absent(shock_id)
    /\ Len(calls) = 2
    /\ exit_reason = "finished"

\* C9 (as claimed): whatever the lines of the event-list file, loading
\* does not abort the session: play never ends by an uncaught exception.
C9_MalformedLinesNeverAbort ==
    timestamp_file # None => (pc # "crashed" /\ exit_reason # "uncaught")

\* out is in rearranged ascending by time, equal times in the order of in.
IsStableSortOf(out, in) ==
    /\ Len(out) = Len(in)
    /\ \E p \in Permutations(1..Len(in)) :
          /\ \A k \in 1..Len(out) : out[k] = in[p[k]]
          /\ \A j, k \in 1..Len(out) :
                j < k => /\ out[j].time <= out[k].time
                         /\ out[j].time = out[k].time => p[j] < p[k]

\* The entries the loop of load_timestamps appends for each event file, in
\* file order.
EntriesRead ==
    [ls \in SeqsUpTo(FileLines, MaxLines) |-> ReadLines(ls, <<>>).entries]

\* C10: the loaded schedule is a permutation of the accepted lines' entries,
\* ascending by trigger offset, entries of equal offset in file order.
C10_ScheduleStablySorted ==
    (timestamp_file # None /\ pc # "crashed") =>
       IsStableSortOf(timestamps, EntriesRead[timestamp_file[1]])

C10_Witness ==
    /\ pc = "try"
    /\ Len(timestamps) = 2
    /\ timestamps[1].time = timestamps[2].time
    /\ timestamps[1].type # timestamps[2].type
    /\ Len(timestamp_file[1]) = 2

\* ------------------------------------------------- the file, read directly
\* The number of commas of a line: a line has four fields when it has three.
CommaCount(line) == Cardinality({ i \in 1..Len(line) : line[i] = "," })

IsFourFieldLine(line) == CommaCount(line) = 3

\* The text before the first comma of a line that has one.
TimeText(line) ==
    LET first == CHOOSE i \in 1..Len(line) :
                    line[i] = "," /\ \A j \in 1..(i - 1) : line[j] # ","
    IN  SubSeq(line, 1, first - 1)

\* digits, one colon, digits.
ColonAt(t, c) ==
    /\ c \in 2..(Len(t) - 1)
    /\ t[c] = ":"
    /\ \A i \in 1..Len(t) : i # c => t[i] \in Digits

IsMinutesSeconds(t) == \E c \in 1..Len(t) : ColonAt(t, c)

\* The number a run of digits writes, from its last digit.
RECURSIVE DecimalOf(_)
DecimalOf(t) ==
    IF t = <<>> THEN 0
    ELSE DecimalOf(SubSeq(t, 1, Len(t) - 1)) * 10 + DigitValue(t[Len(t)])

ExpectedOffset(t) ==
    IF IsMinutesSeconds(t)
    THEN LET c == CHOOSE c \in 1..Len(t) : ColonAt(t, c)
         IN  DecimalOf(SubSeq(t, 1, c - 1)) * 60
                + DecimalOf(SubSeq(t, c + 1, Len(t)))
    ELSE 0

\* Each line of FileLines read directly: whether it has four fields and, if
\* so, whether its timestamp is integer:integer and the offset it writes.
LineRead ==
    [l \in FileLines |->
        IF IsFourFieldLine(l)
        THEN [four |-> TRUE,
              wellformed |-> IsMinutesSeconds(TimeText(l)),
              offset |-> ExpectedOffset(TimeText(l))]
        ELSE [four |-> FALSE, wellformed |-> FALSE, offset |-> 0]]

\* The positions of the file's four-field lines.
FourFieldAt(lines) == { i \in 1..Len(lines) : LineRead[lines[i]].four }

ErrorsLogged == { k \in 1..Len(load_log) : load_log[k].level = "error" }

\* C11: once load_timestamps has returned, the schedule holds one entry per
\* four-field line; the entry of a line whose timestamp is integer:integer
\* has offset minutes*60+seconds, the entry of a line with any other
\* timestamp text has offset 0, and one error was logged per such line.
C11_OffsetsFromTimestamps ==
    (timestamp_file # None /\ pc \notin { "play", "crashed" }) =>
       LET lines == timestamp_file[1]
           four == FourFieldAt(lines)
           offsets == { LineRead[lines[i]].offset : i \in four }
                         \cup { timestamps[k].time : k \in 1..Len(timestamps) }
       IN  /\ Len(timestamps) = Cardinality(four)
           /\ \A v \in offsets :
                 Cardinality({ i \in four : LineRead[lines[i]].offset = v })
                    = Cardinality({ k \in 1..Len(timestamps) :
                                       timestamps[k].time = v })
           /\ Cardinality(ErrorsLogged)
                 = Cardinality({ i \in four : ~LineRead[lines[i]].wellformed })

C11_Witness ==
    /\ pc = "try"
    /\ Len(timestamps) = 2
    /\ timestamps[1].time = 0
    /\ timestamps[2].time = 65
    /\ Cardinality(ErrorsLogged) = 1

\* For each event file, its four-field lines and what load_timestamps
\* returns on a file that holds those lines alone.
FourFieldLinesAlone ==
    [ls \in SeqsUpTo(FileLines, MaxLines) |->
        LET kept == SelectSeq(ls, IsFourFieldLine)
        IN  [kept |-> kept, loaded |-> load_timestamps(Some(kept))]]

\* C12: lines whose field count is not four change nothing but the
\* schedule's length: loading ends as it does on the file without them
\* (they never stop it), and the schedule returned is the one of the
\* four-field lines alone, one entry for each.
C12_OtherFieldCountsSkipped ==
    (timestamp_file # None /\ pc # "play") =>
       LET kept == FourFieldLinesAlone[timestamp_file[1]].kept
           alone == FourFieldLinesAlone[timestamp_file[1]].loaded
       IN  /\ (pc = "crashed") = alone.raised
           /\ pc # "crashed" =>
                 /\ timestamps = alone.value
                 /\ Len(timestamps) = Len(kept)

C12_Witness ==
    /\ pc = "try"
    /\ timestamp_file # None
    /\ Len(timestamp_file[1]) = 2
    /\ ~IsFourFieldLine(timestamp_file[1][1])
    /\ timestamp_file[1][1] # << "\n" >>
    /\ IsFourFieldLine(timestamp_file[1][2])
    /\ Len(timestamps) = 1

\* load_timestamps found no event-list file.
EventFileMissing ==
    load_log = << [level |-> "warning", msg |-> "Timestamp file not found"] >>

\* C13: with no event-list file the schedule is empty, play goes on into
\* the session (it never ends by an uncaught exception) and trigger_shock
\* is never called.
C13_MissingEventFilePlaysWithoutEvents ==
    EventFileMissing =>
       /\ timestamps = <<>>
       /\ calls = <<>>
       /\ current_timestamp_index = 0
       /\ pc \in { "try", "returned" } \cup LoopPcs
       /\ exit_reason \in { "none", "finished", "stopped", "error" }

C13_Witness ==
    /\ EventFileMissing
    /\ exit_reason = "finished"
    /\ elapsed_time >= 2
    /\ pausedWall >= 1

\* play ended because pygame.mixer.music.load raised: the engine was never
\* started.
AudioLoadFailed == exit_reason = "error" /\ music = "idle"

\* C14: when the engine fails to load the file, play returns (the error is
\* caught, not propagated) without a tick, without a trigger_shock call,
\* and with the terminal in its pre-session mode.
C14_AudioLoadFailureAborts ==
    AudioLoadFailed =>
       /\ pc = "returned"
       /\ calls = <<>>
       /\ current_timestamp_index = 0
       /\ reached = {} /\ elapsed_time = 0
       /\ fd = None /\ old_settings = None
       /\ term_mode = PreSessionMode

C14_Witness ==
    /\ AudioLoadFailed
    /\ pc = "returned"
    /\ Len(timestamps) = 2
    /\ timestamps[1].time = 0

\* C15: inside the tick loop the paused flag and the engine agree: while
\* paused the engine is never playing, while not paused it is never paused
\* (a track that has run to its end is neither).
C15_PausedFlagMatchesEngine ==
    pc \in LoopPcs =>
       /\ paused => music \in { "paused", "ended" }
       /\ ~paused => music \in { "playing", "ended" }

C15_Witness ==
    /\ pc = "loop"
    /\ paused
    /\ music = "paused"
    /\ start_time > start0

\* C16: when the dispatch step of a tick run while not paused has ended,
\* the events before the cursor are exactly the events whose offset is at
\* or before the tick's elapsed time, so none that is due is left pending;
\* and no event is ever dispatched before its offset.
C16_NoDueEventLeftPending ==
    /\ (pc = "input" /\ ~paused) =>
          \A i \in 1..Len(timestamps) :
             (i <= current_timestamp_index)
                <=> (timestamps[i].time <= elapsed_time)
    /\ \A k \in 1..Len(calls) :
          timestamps[calls[k].index + 1].time <= elapsed_time

C16_Witness ==
    /\ pc = "dispatch"
    /\ ~paused
    /\ current_timestamp_index = 2
    /\ served = {}
    /\ timestamps[1].time < timestamps[2].time
    /\ timestamps[2].time = elapsed_time

\* A pause has happened and has been resumed.
ResumedAfterPause == ~paused /\ pause_start > 0

\* C17 (as claimed): trigger_shock is called only in ticks run while not
\* paused, and an event whose offset the frozen elapsed time had reached is
\* dispatched on the first tick after resume: when the session has ended
\* as finished after a resume, that tick has run and no such event is left.
C17_PendingEventDispatchedAfterResume ==
    /\ pc = "dispatch" => ~paused
    /\ (ResumedAfterPause /\ exit_reason = "finished") =>
          \A i \in DueAt(pauseElapsed) : i <= current_timestamp_index

\* C17 (amended): no step taken while paused calls trigger_shock or moves
\* the cursor, even when the frozen elapsed time is at or past the next
\* offset; such an event is dispatched in the first tick after resume that
\* reaches its dispatch step.
C17_NoDispatchWhilePaused ==
    /\ [][paused => UNCHANGED << calls, current_timestamp_index >>]_vars
    /\ []((pc = "input" /\ ResumedAfterPause) =>
             \A i \in DueAt(pauseElapsed) : i <= current_timestamp_index)

C17_Witness ==
    /\ pc = "dispatch"
    /\ ResumedAfterPause
    /\ pausedWall >= 1
    /\ served = {}
    /\ Len(calls) = 1
    /\ timestamps[1].time = pauseElapsed
    /\ pauseElapsed >= 1

\* C18 (as claimed): play ends as finished only when not paused and the
\* engine is not busy, and a paused session is left only by 's'.
C18_PausedLeftOnlyByKeys ==
    /\ exit_reason = "finished" => (~paused /\ ~get_busy(music))
    /\ (paused /\ pc = "returned") => exit_reason = "stopped"

\* C18 (amended): the session finishes only from Playing, at the start of a
\* tick in which the engine is not busy, and that tick ends the session;
\* while Paused the engine's answer never ends it: the steps out of Paused
\* are 'p' (to Playing), 's' (to Stopped) and an error raised in the loop
\* (to Stopped).
C18_FinishedOnlyFromPlaying ==
    /\ [][(exit_reason # "finished" /\ exit_reason' = "finished") =>
             (pc = "loop" /\ ~paused /\ ~get_busy(music))]_vars
    /\ [][(pc = "loop" /\ ~paused /\ ~get_busy(music)) =>
             (pc' = "returned" /\ exit_reason' \in { "finished", "error" })]_vars
    /\ [][(paused /\ pc \in LoopPcs /\ (~paused' \/ pc' \notin LoopPcs)) =>
             \/ ~paused' /\ pc' = "loop" /\ music' = music_unpause(music)
             \/ pc' = "returned" /\ exit_reason' = "stopped"
                   /\ music' = "stopped"
             \/ pc' = "returned" /\ exit_reason' = "error"]_vars

C18_Witness ==
    /\ paused
    /\ pc = "input"
    /\ music = "ended"
    /\ now >= pause_start + 1

\* C19: with a wall clock that never goes back, the elapsed time a tick
\* computes is never less than the one the tick before it computed.
C19_ElapsedNeverDecreases ==
    [][(pc = "loop" /\ pc' \in { "dispatch", "input" }) =>
          elapsed_time' >= elapsed_time]_vars

C19_Witness ==
    /\ pc = "dispatch"
    /\ ResumedAfterPause
    /\ pausedWall >= 1
    /\ pauseElapsed >= 1
    /\ elapsed_time > pauseElapsed

\* C20 (as claimed): when play has returned after music.play() was called,
\* the engine has run to the end of the track or stop() was called on it.
C20_EngineNotPlayingAfterReturn ==
    (pc = "returned" /\ music # "idle") => music \in { "ended", "stopped" }

====
